---- MODULE Spec2Model ----
(***************************************************************************)
(* A model of the MiniContainer / KernelSight runtime: the lifecycle       *)
(* manager (container.c), the cgroup controller (cgroup.c), the child      *)
(* entry point (namespace.c, filesystem.c) and the command-line driver     *)
(* (main.c).                                                               *)
(*                                                                         *)
(* A "handle" h in 1..NumHandles is a driver process that holds one        *)
(* in-memory container_t across calls (a library caller, or the driver's   *)
(* run and shell commands).  Driver 0 is a start, stop or delete command   *)
(* of the command line: it reloads the record with container_list, calls   *)
(* the operation and exits, all in one step.  The host is shared by all    *)
(* drivers: the state directories and state.txt files, the cgroup tree and *)
(* the process table.  A process whose parent is -1 belongs to the host's  *)
(* init.                                                                   *)
(*                                                                         *)
(* Abstractions of the kernel (not of the repository's code):              *)
(*  - SIGKILL, and a SIGTERM the init reacts to, take effect before the    *)
(*    sender's next step;                                                  *)
(*  - clone() never returns a pid that a record or a state.txt still      *)
(*    names (no pid recycling); a pid that nothing names is reused, which *)
(*    is a renaming of a fresh one;                                        *)
(*  - fopen(path, "w") fails exactly when the directory is missing, and    *)
(*    a write to a cgroup interface file fails exactly when the leaf       *)
(*    directory is missing;                                                *)
(*  - a zombie does not keep a cgroup leaf busy.                           *)
(*                                                                         *)
(* Specifications: Spec (the lifecycle, each library call one step),       *)
(* RunSpec (the driver's run command among the command line's other        *)
(* commands), HandshakeSpec, ExecSpec and RaceSpec (container_start,       *)
(* container_exec and two container_create calls statement by statement),  *)
(* HandshakeLive (HandshakeSpec with both processes scheduled fairly),     *)
(* CalcSpec, DriverSpec and FsSpec (functions of their arguments alone).   *)
(***************************************************************************)
EXTENDS Integers, Sequences, FiniteSets, TLC

(* ------------------------------ bounds --------------------------------- *)
NumHandles == 1
NumIds == 1
MaxPid == 2
MaxTimeout == 1

Handles == 1..NumHandles
Drivers == 0..NumHandles
Ids == 1..NumIds
Pids == 1..MaxPid

(* ------------------------- program constants --------------------------- *)
CONTAINER_CREATED == 0
CONTAINER_RUNNING == 1
CONTAINER_STOPPED == 2
CONTAINER_PAUSED == 3
CONTAINER_DELETED == 4

MC_OK == 0
MC_ERR_MEMORY == -1
MC_ERR_NAMESPACE == -2
MC_ERR_CGROUP == -3
MC_ERR_FILESYSTEM == -4
MC_ERR_PROCESS == -5
MC_ERR_NOT_FOUND == -7
MC_ERR_INVALID == -8
MC_ERR_EXISTS == -9
MC_ERR_IO == -10

\* usleep(100000) between polls: timeout * 10 polls per stop
PollsPerSecond == 10
\* the timeout container_delete and the driver's stop command pass
DefaultTimeout == 10

\* the two cgroup parents the code names
CgroupInitParent == "kernelsight"
ListParent == "minicontainer"
NoPath == <<>>
CgPaths == {<<par, i>> : par \in {CgroupInitParent, ListParent}, i \in Ids}

(* ----------------------------- the record ------------------------------ *)
\* the states[] table of save_container_state
StateName(s) == <<"created", "running", "stopped", "paused", "deleted">>[s + 1]

\* the strcmp chain of container_list
ParseState(str) ==
  IF str = "running" THEN CONTAINER_RUNNING
  ELSE IF str = "stopped" THEN CONTAINER_STOPPED
  ELSE CONTAINER_CREATED

(* --------------------------- state.txt as text ------------------------- *)
\* Text is a sequence of tokens; " " is white space, every other token stands for
\* one or more characters that are not white space.
Space == " "
MaxNameLen == 3
MaxRecordPid == 12
NameChars == {"a", Space}
RECURSIVE Texts(_)
Texts(n) == IF n = 0 THEN {<<>>}
            ELSE Texts(n - 1) \cup {Append(t, ch) : t \in {u \in Texts(n - 1) : Len(u) = n - 1},
                                                    ch \in NameChars}
\* the names a caller gives: words, separated by single spaces
\* (container_create replaces an empty one by the id)
Names == {t \in Texts(MaxNameLen) : t # <<>> /\ t[1] # Space /\ t[Len(t)] # Space}
\* the ids a state directory is made for
TextIds == {t \in Names : \A k \in 1..Len(t) : t[k] # Space}
\* the states container_create, container_start and container_stop save
SavedStates == {CONTAINER_CREATED, CONTAINER_RUNNING, CONTAINER_STOPPED}

\* fprintf's %d, and sscanf's %d on its output
Digit(d) == <<"0", "1", "2", "3", "4", "5", "6", "7", "8", "9">>[d + 1]
RECURSIVE fprintf_d(_)
fprintf_d(n) == IF n < 10 THEN <<Digit(n)>> ELSE Append(fprintf_d(n \div 10), Digit(n % 10))
DigitValue(ch) == CHOOSE d \in 0..9 : Digit(d) = ch
RECURSIVE sscanf_d(_)
sscanf_d(t) == IF t = <<>> THEN 0
               ELSE 10 * sscanf_d(SubSeq(t, 1, Len(t) - 1)) + DigitValue(t[Len(t)])

\* sscanf's %s: skip leading white space, take the tokens up to the next white
\* space; <<>> when there is none (the conversion fails, nothing is assigned)
RECURSIVE SkipSpace(_)
SkipSpace(t) == IF t # <<>> /\ Head(t) = Space THEN SkipSpace(Tail(t)) ELSE t
RECURSIVE TakeWord(_)
TakeWord(t) == IF t = <<>> \/ Head(t) = Space THEN <<>>
               ELSE <<Head(t)>> \o TakeWord(Tail(t))
sscanf_s(t) == TakeWord(SkipSpace(t))

\* the four lines save_container_state prints, each as its key and the text
\* after the "="
StateText(c) ==
  << [key |-> "id", val |-> c.id], [key |-> "name", val |-> c.name],
     [key |-> "state", val |-> <<StateName(c.state)>>],
     [key |-> "pid", val |-> fprintf_d(c.pid)] >>

\* one pass of container_list's fgets loop over a line, on the calloc'ed record
ReadLine(c, line) ==
  IF line.key = "id" /\ sscanf_s(line.val) # <<>> THEN [c EXCEPT !.id = sscanf_s(line.val)]
  ELSE IF line.key = "name" /\ sscanf_s(line.val) # <<>>
       THEN [c EXCEPT !.name = sscanf_s(line.val)]
  ELSE IF line.key = "pid" /\ SkipSpace(line.val) # <<>>
       THEN [c EXCEPT !.pid = sscanf_d(sscanf_s(line.val))]
  ELSE IF line.key = "state" /\ sscanf_s(line.val) # <<>>
       THEN [c EXCEPT !.state = ParseState(sscanf_s(line.val)[1])]
  ELSE c
RECURSIVE ReadLines(_, _)
ReadLines(c, lines) ==
  IF lines = <<>> THEN c ELSE ReadLines(ReadLine(c, Head(lines)), Tail(lines))
\* the record container_list builds from a state.txt
ReadRecord(lines) ==
  ReadLines([id |-> <<>>, name |-> <<>>, state |-> CONTAINER_CREATED, pid |-> 0], lines)

\* the configurations a caller passes to container_create
\* (rootfs: an existing directory, a missing one, none; cmd: given or empty;
\* mem: memory_limit_bytes)
Configs ==
  { [rootfs |-> "/rootfs", cmd |-> <<"app">>, mem |-> 1],
    [rootfs |-> "/missing", cmd |-> <<"app">>, mem |-> 0],
    [rootfs |-> "", cmd |-> <<>>, mem |-> 0] }
\* dir_exists(rootfs) on the host
dir_exists(r) == r = "/rootfs"

\* a handle holding no record (before create/list, after the driver exits)
NoRecord ==
  [used |-> FALSE, id |-> 0, name |-> 0, hostname |-> 0, rootfs |-> "",
   cmd |-> <<>>, mem |-> 0, state |-> CONTAINER_CREATED, pid |-> 0,
   exit_code |-> 0, cgroup_path |-> NoPath, state_dir |-> 0]

NoFile == [exists |-> FALSE, id |-> 0, name |-> 0, state |-> "", pid |-> 0]
NoConfig == [set |-> FALSE, rootfs |-> "", hostname |-> 0, cmd |-> <<>>, mem |-> 0,
             cgroup_path |-> NoPath]
NoProc == [st |-> "none", parent |-> -1, id |-> 0, rootfs |-> "", hostname |-> 0,
           cmd |-> <<>>, mem |-> 0, pivoted |-> FALSE, code |-> 0]
NoHs == [ppc |-> "idle", cpc |-> "none", user_ns |-> FALSE, hostname |-> FALSE,
         rootfs |-> "", leaf |-> FALSE, pipe |-> 0, pw |-> FALSE, cw |-> FALSE,
         uid_map |-> FALSE, gid_map |-> FALSE, released |-> FALSE, attached |-> FALSE,
         ret |-> 0, at |-> "", code |-> 0, running |-> FALSE]
\* container_exec not called: the driver's and the helper's position, the record's
\* state, pid and cgroup_path ("init": the leaf cgroup_init made; "list": the
\* path container_list builds; "": none, cgroup_init having failed), whether the
\* init exists, whether the init's leaf exists
NoEx == [ppc |-> "idle", hpc |-> "none", cmd |-> FALSE, state |-> 0, pid |-> 0,
         path |-> "", live |-> FALSE, leaf |-> FALSE, probe |-> "none",
         log |-> <<>>, entered |-> {}, procs |-> "", code |-> 0, ret |-> 0,
         signaled |-> FALSE]
\* the driver's run command not started: its position, the id it created, whether
\* its start succeeded, the status its waitpid stored
NoRun == [pc |-> "idle", id |-> 0, started |-> FALSE, status |-> 0]
\* no create under way: for each of the two drivers its position, the next limit
\* write and its return value; the state directory, who wrote state.txt last
\* (0: nobody), the leaf directory, and each limit file's value and its writer
NoRace == [pc |-> <<"idle", "idle">>, k |-> <<1, 1>>, ret |-> <<0, 0>>, dir |-> FALSE,
           file |-> 0, leafdir |-> FALSE,
           leaf |-> [f \in {"memory.max", "memory.swap.max", "cpu.max", "cpu.weight",
                            "pids.max"} |-> [value |-> "max", by |-> 0]]]
NoCalc == [fn |-> "none", in |-> <<>>, out |-> <<>>]
NoEvent == [op |-> "init", h |-> 0, id |-> 0, from |-> 0, ret |-> 0, budget |-> 0,
            polls |-> 0, exited |-> 0, sigs |-> <<>>, leaf |-> NoPath, cleanup |-> 0,
            killed |-> {}]

VARIABLES
  rec,      \* rec[h]: the container_t a driver invocation holds
  dirs,     \* ids whose state directory exists
  files,    \* files[id]: the content of <state dir>/state.txt
  cgdirs,   \* the cgroup leaf directories that exist
  cgprocs,  \* cgprocs[path]: the pids in the leaf's cgroup.procs
  cgmem,    \* cgmem[path]: the last value written to the leaf's memory.max
  proc,     \* proc[pid]: the process table
  made,     \* made[id]: the configuration container_create last created id with
  ev,       \* the last step: the operation, the driver, the record's id, the state
            \* the driver's record had before it, the return value, and of a stop
            \* the polls allowed and made, the poll before which the init ended
            \* (0: before the stop) and the signals sent, and of a delete the
            \* path cgroup_cleanup worked on, the processes it killed and its
            \* return value
  calc,     \* the last call of a function checked on its own: its name, its
            \* argument and its result
  hs,       \* one container_start followed statement by statement: the position
            \* of the driver and of the cloned child, the pipe, the maps, the leaf
  run,      \* the run command of driver 1: create, start, waitpid, delete, exit
  race,     \* two drivers in container_create with the same id, statement by
            \* statement
  ex        \* one container_exec followed statement by statement: the position of
            \* the driver and of the forked helper, the helper's calls so far (log),
            \* the namespaces it entered, the cgroup.procs it was written to

vars == <<rec, dirs, files, cgdirs, cgprocs, cgmem, proc, made, ev, calc, hs, ex, run, race>>

\* the host (everything but the in-flight operation's log) as one value
World ==
  [rec |-> rec, dirs |-> dirs, files |-> files, cgdirs |-> cgdirs,
   cgprocs |-> cgprocs, cgmem |-> cgmem, proc |-> proc,
   made |-> made, id |-> 0, ret |-> MC_OK, budget |-> 0, polls |-> 0, exited |-> 0,
   sigs |-> <<>>, leaf |-> NoPath, cleanup |-> MC_OK, killed |-> {}]

\* the step of an operation: the host as the operation left it, and the log
CommitWorld(w, op, h) ==
  /\ rec' = w.rec
  /\ dirs' = w.dirs
  /\ files' = w.files
  /\ cgdirs' = w.cgdirs
  /\ cgprocs' = w.cgprocs
  /\ cgmem' = w.cgmem
  /\ proc' = w.proc
  /\ made' = w.made
  /\ calc' = calc
  /\ hs' = hs
  /\ ex' = ex
  /\ ev' = [id |-> w.id, leaf |-> w.leaf, ret |-> w.ret, op |-> op, h |-> h,
            from |-> rec[h].state, budget |-> w.budget, polls |-> w.polls,
            exited |-> w.exited, sigs |-> w.sigs, cleanup |-> w.cleanup,
            killed |-> w.killed]

Commit(w, op, h) == CommitWorld(w, op, h) /\ run' = run /\ race' = race

Init ==
  /\ rec = [h \in Drivers |-> NoRecord]
  /\ dirs = {}
  /\ files = [i \in Ids |-> NoFile]
  /\ cgdirs = {}
  /\ cgprocs = [p \in CgPaths |-> {}]
  /\ cgmem = [p \in CgPaths |-> 0]
  /\ proc = [p \in Pids |-> NoProc]
  /\ made = [i \in Ids |-> NoConfig]
  /\ ev = NoEvent
  /\ calc = NoCalc
  /\ hs = NoHs
  /\ ex = NoEx
  /\ run = NoRun
  /\ race = NoRace

(* ----------------------------- record store ---------------------------- *)
\* fopen(path, "w") on <state_dir>/state.txt, then the four key=value lines
save_container_state(w, h) ==
  LET c == w.rec[h] IN
  IF c.state_dir \notin w.dirs THEN w
  ELSE [w EXCEPT !.files[c.state_dir] =
          [exists |-> TRUE, id |-> c.id, name |-> c.name,
           state |-> StateName(c.state), pid |-> c.pid]]

(* -------------------------- cgroup controller -------------------------- *)
\* open(path, O_WRONLY) of an interface file of a leaf
LeafWritable(w, path) == path \in w.cgdirs

\* cgroup_init: cgv2 says whether /sys/fs/cgroup/cgroup.controllers exists
cgroup_init(w, h, cgv2) ==
  IF ~cgv2 THEN w
  ELSE LET path == <<CgroupInitParent, w.rec[h].id>> IN
       [w EXCEPT !.rec[h].cgroup_path = path, !.cgdirs = @ \cup {path}]

\* cgroup_apply_limits: the memory.max write (the other axes are not configured here)
cgroup_apply_limits(w, h) ==
  LET c == w.rec[h] IN
  IF c.mem > 0 /\ LeafWritable(w, c.cgroup_path)
  THEN [w EXCEPT !.cgmem[c.cgroup_path] = c.mem]
  ELSE w

(* ------------------------------ lifecycle ------------------------------ *)
container_create(w, h, id, rootfs, cmd, mem, cgv2) ==
  LET c == [NoRecord EXCEPT !.used = TRUE, !.id = id, !.name = id, !.hostname = id,
                            !.rootfs = rootfs, !.cmd = cmd, !.mem = mem,
                            !.state_dir = id, !.state = CONTAINER_CREATED]
      w1 == [w EXCEPT !.rec[h] = c, !.dirs = @ \cup {id}]
      w2 == cgroup_apply_limits(cgroup_init(w1, h, cgv2), h)
      w3 == save_container_state(w2, h)
  IN [w3 EXCEPT !.ret = MC_OK, !.id = id,
                !.made[id] = [set |-> TRUE, rootfs |-> rootfs, hostname |-> id,
                              cmd |-> cmd, mem |-> mem,
                              cgroup_path |-> w2.rec[h].cgroup_path]]

\* container_list, and the driver's choice of the entry for id
container_list(w, h, id) ==
  LET f == w.files[id] IN
  [w EXCEPT !.rec[h] =
     [NoRecord EXCEPT !.used = TRUE, !.id = f.id, !.name = f.name,
                      !.state = ParseState(f.state), !.pid = f.pid,
                      !.state_dir = id, !.cgroup_path = <<ListParent, f.id>>]]

\* the ids of the records container_list returns: one for each directory entry
\* whose state.txt opens, with the id read from its id= line
ListedIds(w) == {w.files[i].id : i \in {j \in Ids : w.files[j].exists}}

(* ------------------------------ processes ------------------------------ *)
Alive(pr) == pr.st \in {"setup", "running"}

\* a process ends: a zombie while a living driver is its parent, reaped by the
\* host's init otherwise; either way it leaves every cgroup.procs
Die(w, p, code) ==
  [w EXCEPT !.proc[p] = IF w.proc[p].parent \in Drivers
                        THEN [NoProc EXCEPT !.st = "zombie", !.code = code,
                                            !.parent = w.proc[p].parent]
                        ELSE NoProc,
            !.cgprocs = [q \in CgPaths |-> @[q] \ {p}]]

\* kill(pid, sig) as the log keeps it: the signal, the pid, whether it was alive
Signal(w, p, sig) ==
  [w EXCEPT !.sigs = Append(@, [sig |-> sig, pid |-> p, alive |-> Alive(w.proc[p])])]

\* kill(pid, SIGKILL)
kill_SIGKILL(w, p) ==
  LET w1 == Signal(w, p, "KILL") IN
  IF Alive(w.proc[p]) THEN Die(w1, p, 137) ELSE w1

\* waitpid(pid, &status, ...) returns pid: p is an unreaped child of the caller
IsChild(w, h, p) == w.proc[p].parent = h /\ w.proc[p].st \in {"setup", "running", "zombie"}

\* a successful waitpid: the zombie is reaped and its status stored
Reap(w, h, p) ==
  [w EXCEPT !.proc[p] = NoProc, !.rec[h].exit_code = w.proc[p].code]

(* -------------------------- namespace orchestrator --------------------- *)
\* ns_create: res is MC_OK when pipe, malloc and clone succeed, the error otherwise.
\* The child holds a copy of the config as of the clone and has been released
\* (the byte is written) when ns_create returns its pid.
NsFailures == {MC_ERR_IO, MC_ERR_MEMORY, MC_ERR_NAMESPACE}

\* the pids clone() may return: no process has them, no record or state.txt names them
FreshPids(w) ==
  {p \in Pids : /\ w.proc[p].st = "none"
                /\ \A h \in Drivers : w.rec[h].pid # p
                /\ \A i \in Ids : w.files[i].pid # p}

ns_create(w, h, res) ==
  IF res # MC_OK THEN [w EXCEPT !.ret = res]
  ELSE LET c == w.rec[h]
           pid == CHOOSE p \in FreshPids(w) : \A q \in FreshPids(w) : p <= q IN
       [w EXCEPT !.ret = pid,
                 !.proc[pid] = [st |-> "setup", parent |-> h, id |-> c.id,
                                rootfs |-> c.rootfs, hostname |-> c.hostname,
                                cmd |-> c.cmd, mem |-> c.mem, pivoted |-> FALSE,
                                code |-> 0]]

\* fs_pivot_root: MC_OK only for an existing directory whose mounts succeed
fs_pivot_root(rootfs, mounts_ok) ==
  IF ~dir_exists(rootfs) THEN MC_ERR_FILESYSTEM
  ELSE IF ~mounts_ok THEN MC_ERR_FILESYSTEM
  ELSE MC_OK

\* container_child after the handshake read: hostname, pivot, environment, exec
container_child(w, p, host_ok, mounts_ok, exec_ok) ==
  LET pr == w.proc[p] IN
  IF pr.hostname # 0 /\ ~host_ok THEN Die(w, p, 1)
  ELSE IF pr.rootfs # "" /\ fs_pivot_root(pr.rootfs, mounts_ok) # MC_OK THEN Die(w, p, 1)
  ELSE IF ~exec_ok THEN Die(w, p, 127)
  ELSE [w EXCEPT !.proc[p].st = "running", !.proc[p].pivoted = (pr.rootfs # "")]

(* -------------------------- cgroup controller, ctd. -------------------- *)
\* cgroup_add_pid: the write to <cgroup_path>/cgroup.procs
cgroup_add_pid(w, h, pid) ==
  LET path == w.rec[h].cgroup_path IN
  IF LeafWritable(w, path) /\ Alive(w.proc[pid])
  THEN [w EXCEPT !.cgprocs = [q \in CgPaths |-> IF q = path THEN @[q] \cup {pid}
                                                  ELSE @[q] \ {pid}]]
  ELSE w

RECURSIVE KillSet(_, _)
KillSet(w, ps) ==
  IF ps = {} THEN w
  ELSE LET p == CHOOSE q \in ps : TRUE IN
       KillSet(IF Alive(w.proc[p]) THEN Die(w, p, 137) ELSE w, ps \ {p})

\* cgroup_kill_all: cgroup.kill, or SIGKILL to each pid of cgroup.procs
cgroup_kill_all(w, h) ==
  LET path == w.rec[h].cgroup_path IN
  IF path \in w.cgdirs
  THEN [KillSet(w, w.cgprocs[path]) EXCEPT
          !.killed = {p \in w.cgprocs[path] : Alive(w.proc[p])}]
  ELSE w

\* rmdir(path): ENOENT when it is absent, EBUSY while a process is in it
rmdir(w, path) ==
  IF path \notin w.cgdirs THEN [w EXCEPT !.ret = "ENOENT"]
  ELSE IF w.cgprocs[path] # {} THEN [w EXCEPT !.ret = "EBUSY"]
  ELSE [w EXCEPT !.cgdirs = @ \ {path}, !.ret = "ok"]

\* cgroup_cleanup with the rmdir ahead of the kill
cgroup_cleanup_RmdirFirst(w, h) ==
  LET path == w.rec[h].cgroup_path IN
  IF path = NoPath THEN [w EXCEPT !.cleanup = MC_OK]
  ELSE LET w1 == rmdir(w, path)
           w2 == cgroup_kill_all([w1 EXCEPT !.ret = w.ret], h) IN
       [w2 EXCEPT !.leaf = path,
                  !.cleanup = IF w1.ret = "EBUSY" THEN MC_ERR_CGROUP ELSE MC_OK]

\* cgroup_cleanup: nothing for an empty path; kill, then rmdir (ENOENT is success)
cgroup_cleanup(w, h) ==
  LET path == w.rec[h].cgroup_path IN
  IF path = NoPath THEN [w EXCEPT !.cleanup = MC_OK]
  ELSE LET w1 == cgroup_kill_all(w, h)
           w2 == rmdir(w1, path) IN
       [w2 EXCEPT !.ret = w.ret, !.leaf = path,
                  !.cleanup = IF w2.ret = "EBUSY" THEN MC_ERR_CGROUP ELSE MC_OK]

(* ------------------------------ lifecycle, ctd. ------------------------ *)
\* the guard of container_start
StartRejects(state) == state = CONTAINER_RUNNING

\* container_start that records the state before it knows ns_create's result
container_start_SavesFirst(w, h, res) ==
  IF StartRejects(w.rec[h].state) THEN [w EXCEPT !.ret = MC_ERR_INVALID, !.id = w.rec[h].id]
  ELSE LET w0 == save_container_state([w EXCEPT !.rec[h].state = CONTAINER_RUNNING], h)
           w1 == ns_create([w0 EXCEPT !.id = w.rec[h].id], h, res) IN
       IF w1.ret < 0 THEN w1
       ELSE LET pid == w1.ret
                w2 == [w1 EXCEPT !.rec[h].pid = pid]
            IN [save_container_state(cgroup_add_pid(w2, h, pid), h) EXCEPT !.ret = MC_OK]

container_start(w, h, res) ==
  IF StartRejects(w.rec[h].state) THEN [w EXCEPT !.ret = MC_ERR_INVALID, !.id = w.rec[h].id]
  ELSE LET w1 == ns_create([w EXCEPT !.id = w.rec[h].id], h, res) IN
       IF w1.ret < 0 THEN w1
       ELSE LET pid == w1.ret
                w2 == [w1 EXCEPT !.rec[h].pid = pid, !.rec[h].state = CONTAINER_RUNNING]
            IN [save_container_state(cgroup_add_pid(w2, h, pid), h) EXCEPT !.ret = MC_OK]

\* the polls container_stop may make
Polls(timeout) == timeout * PollsPerSecond

\* When the init ends after SIGTERM: before poll j (j in 1..Polls), or not within
\* the loop (Polls + 1); the first, the last and the missing reaction are kept.
Reactions(timeout) == {j \in {1, Polls(timeout), Polls(timeout) + 1} : j >= 1}

\* container_stop without the guard of its first line, as a record with no live
\* init shows it: the kills and polls find nothing, the state is set and saved
container_stop_Unguarded(w, h, timeout, react) ==
  save_container_state([w EXCEPT !.rec[h].state = CONTAINER_STOPPED, !.ret = MC_OK,
                                 !.id = w.rec[h].id, !.budget = Polls(timeout),
                                 !.polls = Polls(timeout)], h)

container_stop(w, h, timeout, react) ==
  LET c == w.rec[h]
      p == c.pid
      n == Polls(timeout)
      was_alive == Alive(w.proc[p])
      child == IsChild(w, h, p)
      exited == IF was_alive THEN react ELSE 0
      w1 == Signal([w EXCEPT !.id = c.id, !.budget = n], p, "TERM")
      stopped(x) == save_container_state([x EXCEPT !.rec[h].state = CONTAINER_STOPPED], h)
  IN
  IF c.state # CONTAINER_RUNNING THEN [w EXCEPT !.ret = MC_OK, !.id = c.id]
  ELSE IF child /\ n >= 1 /\ exited <= n
       THEN \* waitpid(WNOHANG) > 0 at the poll after the init ended
            LET w2 == IF was_alive THEN Die(w1, p, 143) ELSE w1 IN
            [stopped(Reap(w2, h, p)) EXCEPT
               !.ret = MC_OK, !.exited = exited,
               !.polls = IF exited = 0 THEN 1 ELSE exited]
       ELSE \* every poll returned 0 (a child still alive) or -1 (not a child)
            LET w2 == IF was_alive /\ exited <= n THEN Die(w1, p, 143) ELSE w1
                w3 == kill_SIGKILL(w2, p)
                w4 == IF child THEN Reap(w3, h, p) ELSE w3 IN
            [stopped(w4) EXCEPT !.ret = MC_OK, !.exited = exited, !.polls = n]

\* container_delete without the assignment of CONTAINER_DELETED
container_delete_KeepsState(w, h, react) ==
  LET w1 == IF w.rec[h].state = CONTAINER_RUNNING
            THEN container_stop(w, h, DefaultTimeout, react) ELSE w
      w2 == cgroup_cleanup(w1, h)
      dir == w.rec[h].state_dir IN
  [w2 EXCEPT !.dirs = @ \ {dir}, !.files[dir] = NoFile, !.made[dir] = NoConfig,
             !.ret = MC_OK, !.id = w.rec[h].id]

\* container_delete without the rm -rf of the state directory
container_delete_KeepsDir(w, h, react) ==
  LET w1 == IF w.rec[h].state = CONTAINER_RUNNING
            THEN container_stop(w, h, DefaultTimeout, react) ELSE w
      w2 == cgroup_cleanup(w1, h) IN
  [w2 EXCEPT !.rec[h].state = CONTAINER_DELETED, !.ret = MC_OK, !.id = w.rec[h].id]

container_delete(w, h, react) ==
  LET w1 == IF w.rec[h].state = CONTAINER_RUNNING
            THEN container_stop(w, h, DefaultTimeout, react) ELSE w
      w2 == cgroup_cleanup(w1, h)
      dir == w.rec[h].state_dir IN
  [w2 EXCEPT !.dirs = @ \ {dir}, !.files[dir] = NoFile, !.made[dir] = NoConfig,
             !.rec[h].state = CONTAINER_DELETED, !.ret = MC_OK, !.id = w.rec[h].id]

\* the driver returns from main (container_free, exit): its living children go to
\* the host's init, which also reaps its zombies
driver_exit(w, h) ==
  [w EXCEPT !.rec[h] = NoRecord,
            !.proc = [p \in Pids |->
                        IF @[p].parent # h THEN @[p]
                        ELSE IF @[p].st = "zombie" THEN NoProc
                        ELSE [@[p] EXCEPT !.parent = -1]]]

(* ------------------------------- actions ------------------------------- *)
\* a new record goes to the first driver that holds none
FirstFree(h) == ~rec[h].used /\ \A g \in Handles : g < h => rec[g].used

\* the call clones only when start does not reject and ns_create does not fail early
CanClone(w, h, res) ==
  (res = MC_OK /\ ~StartRejects(w.rec[h].state)) => FreshPids(w) # {}

Create(h) ==
  /\ FirstFree(h)
  /\ \E id \in Ids, cfg \in Configs, cgv2 \in BOOLEAN :
       Commit(container_create(World, h, id, cfg.rootfs, cfg.cmd, cfg.mem, cgv2), "create", h)

Start(h) ==
  /\ rec[h].used
  /\ \E res \in {MC_OK} \cup NsFailures :
       /\ CanClone(World, h, res)
       /\ Commit(container_start(World, h, res), "start", h)

Stop(h) ==
  /\ rec[h].used
  /\ \E timeout \in 0..MaxTimeout :
       \E react \in Reactions(timeout) :
         Commit(container_stop(World, h, timeout, react), "stop", h)

Delete(h) ==
  /\ rec[h].used
  /\ \E react \in Reactions(DefaultTimeout) :
       Commit(container_delete(World, h, react), "delete", h)

Free(h) ==
  /\ rec[h].used
  /\ Commit(driver_exit(World, h), "free", h)

\* main's start, stop and delete commands: container_list, the operation on the
\* entry that matches the argument, container_free and exit
CliStart(id) ==
  /\ files[id].exists
  /\ \E res \in {MC_OK} \cup NsFailures :
       LET w == container_list(World, 0, id) IN
       /\ CanClone(w, 0, res)
       /\ Commit(driver_exit(container_start(w, 0, res), 0), "start", 0)

CliStop(id) ==
  /\ files[id].exists
  /\ \E react \in Reactions(DefaultTimeout) :
       Commit(driver_exit(container_stop(container_list(World, 0, id), 0,
                                         DefaultTimeout, react), 0), "stop", 0)

CliDelete(id) ==
  /\ files[id].exists
  /\ \E react \in Reactions(DefaultTimeout) :
       Commit(driver_exit(container_delete(container_list(World, 0, id), 0, react), 0),
              "delete", 0)

\* the waitpid(c->pid, &status, 0) of main's run and shell commands
Wait(h) ==
  /\ rec[h].used
  /\ rec[h].pid \in Pids
  /\ proc[rec[h].pid].st = "zombie"
  /\ proc[rec[h].pid].parent = h
  /\ Commit([World EXCEPT !.proc[rec[h].pid] = NoProc, !.id = rec[h].id], "wait", h)

\* the child runs from the handshake to exec
ChildRun(p) ==
  /\ proc[p].st = "setup"
  /\ \E host_ok, mounts_ok, exec_ok \in BOOLEAN :
       Commit(container_child(World, p, host_ok, mounts_ok, exec_ok), "child", 0)

\* the init ends by itself, or is killed from outside the runtime
InitExit(p) ==
  /\ Alive(proc[p])
  /\ Commit(Die(World, p, 0), "exit", 0)

Next ==
  \/ \E p \in Pids : ChildRun(p)
  \/ \E p \in Pids : InitExit(p)
  \/ \E h \in Handles : Create(h)
  \/ \E h \in Handles : Start(h)
  \/ \E h \in Handles : Stop(h)
  \/ \E h \in Handles : Delete(h)
  \/ \E h \in Handles : Wait(h)
  \/ \E h \in Handles : Free(h)
  \/ \E i \in Ids : CliStart(i)
  \/ \E i \in Ids : CliStop(i)
  \/ \E i \in Ids : CliDelete(i)

Spec == Init /\ [][Next]_vars
(* ------------------- cgroup_apply_limits, write by write --------------- *)
\* int is 32 bits wide
INT_MAX == 2147483647
Limb == 65536

\* C's integer division truncates toward zero
TruncDiv(a, b) == IF a >= 0 THEN a \div b ELSE -((-a) \div b)

\* cpu_shares * 100 as the 32-bit int a wrapping multiplication leaves
mul100_wrapped(s) ==
  LET lo == (s % Limb) * 100
      hi == ((s \div Limb) * 100 + lo \div Limb) % Limb IN
  IF hi >= Limb \div 2 THEN (hi - Limb) * Limb + (lo % Limb) ELSE hi * Limb + (lo % Limb)

\* (cpu_shares * 100) / 1024.  The product overflows int for shares above
\* INT_MAX / 100, which is undefined: the build either keeps the product in a
\* wider register (wide) or wraps it to 32 bits.
shares_quotient(s, wide) ==
  IF s <= INT_MAX \div 100 THEN (s * 100) \div 1024
  ELSE IF wide THEN 25 * (s \div 256) + (25 * (s % 256)) \div 256
  ELSE TruncDiv(mul100_wrapped(s), 1024)

\* the weight written to cpu.weight
cpu_weight(s, wide) ==
  LET weight == shares_quotient(s, wide) IN
  IF weight < 1 THEN 1 ELSE IF weight > 10000 THEN 10000 ELSE weight

LimitFiles == <<"memory.max", "memory.swap.max", "cpu.max", "cpu.weight", "pids.max">>

\* write_cgroup_value(path, value) on an interface file: fails names the files
\* whose open or write fails
write_cgroup_value(file, value, fails) == [file |-> file, value |-> value, ok |-> file \notin fails]

\* cgroup_apply_limits that returns at the first write that fails
limit_writes_StopAtFailure(limits, fails, wide) ==
  IF limits.memory_limit_bytes > 0
  THEN <<write_cgroup_value("memory.max", limits.memory_limit_bytes, fails)>>
  ELSE IF limits.cpu_quota_us > 0
  THEN <<write_cgroup_value("cpu.max", <<limits.cpu_quota_us, limits.cpu_period_us>>, fails)>>
  ELSE IF limits.cpu_shares > 0
  THEN <<write_cgroup_value("cpu.weight", cpu_weight(limits.cpu_shares, wide), fails)>>
  ELSE IF limits.pids_max > 0
  THEN <<write_cgroup_value("pids.max", limits.pids_max, fails)>>
  ELSE <<>>

\* cgroup_apply_limits that takes a limit of zero for a value to write
limit_writes_ZeroWritten(limits, fails, wide) ==
  (IF limits.memory_limit_bytes >= 0
   THEN <<write_cgroup_value("memory.max", limits.memory_limit_bytes, fails)>>
        \o (IF limits.memory_swap_bytes >= 0
            THEN <<write_cgroup_value("memory.swap.max", limits.memory_swap_bytes, fails)>>
            ELSE <<>>)
   ELSE <<>>)
  \o (IF limits.cpu_quota_us >= 0
      THEN <<write_cgroup_value("cpu.max", <<limits.cpu_quota_us, limits.cpu_period_us>>, fails)>>
      ELSE <<>>)
  \o (IF limits.cpu_shares >= 0
      THEN <<write_cgroup_value("cpu.weight", cpu_weight(limits.cpu_shares, wide), fails)>>
      ELSE <<>>)
  \o (IF limits.pids_max >= 0
      THEN <<write_cgroup_value("pids.max", limits.pids_max, fails)>>
      ELSE <<>>)

\* the writes cgroup_apply_limits makes, in order
limit_writes(limits, fails, wide) ==
  LET period == IF limits.cpu_period_us > 0 THEN limits.cpu_period_us ELSE 100000 IN
  (IF limits.memory_limit_bytes > 0
   THEN <<write_cgroup_value("memory.max", limits.memory_limit_bytes, fails)>>
        \o (IF limits.memory_swap_bytes >= 0
            THEN <<write_cgroup_value("memory.swap.max", limits.memory_swap_bytes, fails)>>
            ELSE <<>>)
   ELSE <<>>)
  \o (IF limits.cpu_quota_us > 0
      THEN <<write_cgroup_value("cpu.max", <<limits.cpu_quota_us, period>>, fails)>>
      ELSE <<>>)
  \o (IF limits.cpu_shares > 0
      THEN <<write_cgroup_value("cpu.weight", cpu_weight(limits.cpu_shares, wide), fails)>>
      ELSE <<>>)
  \o (IF limits.pids_max > 0
      THEN <<write_cgroup_value("pids.max", limits.pids_max, fails)>>
      ELSE <<>>)

NoLimits == [memory_limit_bytes |-> 0, cpu_quota_us |-> 0, cpu_period_us |-> 0,
             cpu_shares |-> 0, pids_max |-> 0, memory_swap_bytes |-> -1]
\* the limits a caller configures: each axis set or not
LimitConfigs ==
  [memory_limit_bytes : {0, 1}, memory_swap_bytes : {-1, 0}, cpu_quota_us : {0, 1},
   cpu_period_us : {0}, cpu_shares : {0, 1024}, pids_max : {0, 1}]
\* the limits cgroup_apply_limits may be handed: each axis negative, zero or set
LimitInputs ==
  [memory_limit_bytes : {-1, 0, 1}, memory_swap_bytes : {-1, 0, 1}, cpu_quota_us : {-1, 0, 1},
   cpu_period_us : {0}, cpu_shares : {-1, 0, 1024}, pids_max : {-1, 0, 1}]
\* cpu_shares values: around each clamp, around the overflow of the product
ShareValues ==
  {1, 10, 11, 1024, 102400, 102410, 262144, INT_MAX \div 100, INT_MAX \div 100 + 1,
   42949673, INT_MAX}

(* ---------------------- functions checked on their own ----------------- *)
Call(fn, in, out) ==
  /\ calc' = [fn |-> fn, in |-> in, out |-> out]
  /\ UNCHANGED <<rec, dirs, files, cgdirs, cgprocs, cgmem, proc, made, ev, hs, ex, run, race>>

\* save_container_state on a record, then container_list on what it wrote
SaveReload ==
  \E id \in TextIds, name \in Names, state \in SavedStates, pid \in {0, 7, MaxRecordPid} :
    LET c == [id |-> id, name |-> name, state |-> state, pid |-> pid] IN
    Call("reload", c, ReadRecord(StateText(c)))

\* container_create with limits, where cgroup v2 may be absent and the open or
\* write of any limit file may fail
CreateWithFailures ==
  \E cgv2 \in BOOLEAN, limits \in LimitConfigs,
     fails \in SUBSET {LimitFiles[k] : k \in 1..Len(LimitFiles)} :
    LET w == container_create(World, 1, 1, "/rootfs", <<"app">>,
                              limits.memory_limit_bytes, cgv2)
        nofile == IF cgv2 THEN fails ELSE {LimitFiles[k] : k \in 1..Len(LimitFiles)} IN
    Call("create", [cgv2 |-> cgv2, fails |-> nofile, limits |-> limits],
         [ret |-> w.ret, saved |-> w.files[1], writes |-> limit_writes(limits, nofile, TRUE)])

\* cgroup_apply_limits with cpu_shares set
ApplyWeight ==
  \E shares \in ShareValues, wide \in BOOLEAN :
    LET writes == limit_writes([NoLimits EXCEPT !.cpu_shares = shares], {}, wide) IN
    Call("weight", shares, writes[1].value)

\* cgroup_apply_limits on a leaf whose files are writable
ApplyLimits ==
  \E limits \in LimitInputs : Call("limits", limits, limit_writes(limits, {}, TRUE))

CalcNext == SaveReload \/ CreateWithFailures \/ ApplyWeight \/ ApplyLimits

CalcSpec == Init /\ [][CalcNext]_vars

(* --------------- container_start, statement by statement --------------- *)
\* The driver runs ns_create and the rest of container_start; the cloned child
\* runs container_child.  pw and cw are the driver's and the child's copy of the
\* pipe's write end, pipe the bytes in it.  ok is the outcome of the statement's
\* system call where it can fail.

\* the statements of container_child after the handshake
ChildWork == {"hostname", "pivot", "mounts", "env", "exec", "command"}

\* a read that does not wait for the driver (a non-blocking pipe, or no read)
sync_read_NoWait(s) == "byte"

\* a read in a child that kept its copy of the write end: no end of file
sync_read_OwnEndOpen(s) == IF s.pipe > 0 THEN "byte" ELSE "block"

\* read(sync_pipe[0], &buf, 1): the byte, end of file when no write end is open,
\* or the child stays blocked
sync_read(s) ==
  IF s.pipe > 0 THEN "byte"
  ELSE IF ~s.pw /\ ~s.cw THEN "eof"
  ELSE "block"

\* one statement of ns_create, then of container_start
ns_create_step(s, ok) ==
  CASE s.ppc = "pipe" ->
         IF ok THEN [s EXCEPT !.ppc = "malloc", !.pw = TRUE]
         ELSE [s EXCEPT !.ppc = "done", !.ret = MC_ERR_IO]
    [] s.ppc = "malloc" ->
         IF ok THEN [s EXCEPT !.ppc = "clone"]
         ELSE [s EXCEPT !.ppc = "done", !.pw = FALSE, !.ret = MC_ERR_MEMORY]
    [] s.ppc = "clone" ->
         IF ok THEN [s EXCEPT !.ppc = IF s.user_ns THEN "setgroups" ELSE "close_r",
                              !.cpc = "close_w", !.cw = TRUE]
         ELSE [s EXCEPT !.ppc = "done", !.pw = FALSE, !.ret = MC_ERR_NAMESPACE]
    [] s.ppc = "setgroups" -> [s EXCEPT !.ppc = "uid_map"]
    [] s.ppc = "uid_map" ->
         IF ok THEN [s EXCEPT !.ppc = "gid_map", !.uid_map = TRUE]
         ELSE [s EXCEPT !.ppc = "kill", !.ret = MC_ERR_IO]
    [] s.ppc = "gid_map" ->
         IF ok THEN [s EXCEPT !.ppc = "close_r", !.gid_map = TRUE]
         ELSE [s EXCEPT !.ppc = "kill", !.ret = MC_ERR_IO]
    [] s.ppc = "kill" ->
         \* kill(pid, SIGKILL) and waitpid: at is where the child was
         [s EXCEPT !.ppc = "done", !.cpc = "killed", !.pw = FALSE, !.cw = FALSE,
                   !.at = s.cpc]
    [] s.ppc = "close_r" -> [s EXCEPT !.ppc = "write"]
    [] s.ppc = "write" -> [s EXCEPT !.ppc = "close_w", !.pipe = 1, !.released = TRUE]
    [] s.ppc = "close_w" ->
         \* ns_create returns the pid; container_start sets pid and state
         [s EXCEPT !.ppc = "add_pid", !.pw = FALSE, !.running = TRUE]
    [] s.ppc = "add_pid" ->
         [s EXCEPT !.ppc = "save", !.attached = s.leaf /\ s.cpc # "exited"]
    [] s.ppc = "save" -> [s EXCEPT !.ppc = "done", !.ret = MC_OK]

\* a child that exits with 1 whatever failed
child_exit_code_Always1(step) == 1

\* the argument of exit() after the statement that failed
child_exit_code(step) == IF step = "exec" THEN 127 ELSE 1

\* one statement of container_child; at an exit, at is the statement that failed
container_child_step(s, ok) ==
  LET after_hostname == IF s.rootfs # "" THEN "pivot" ELSE "env"
      exit == [s EXCEPT !.cpc = "exited", !.cw = FALSE, !.attached = FALSE,
                        !.at = s.cpc, !.code = child_exit_code(s.cpc)] IN
  CASE s.cpc = "close_w" -> [s EXCEPT !.cpc = "read", !.cw = FALSE]
    [] s.cpc = "read" ->
         IF sync_read(s) = "byte" THEN [s EXCEPT !.cpc = "hostname", !.pipe = 0]
         ELSE exit
    [] s.cpc = "hostname" ->
         IF ~s.hostname \/ ok THEN [s EXCEPT !.cpc = after_hostname] ELSE exit
    [] s.cpc = "pivot" ->
         IF fs_pivot_root(s.rootfs, ok) = MC_OK THEN [s EXCEPT !.cpc = "mounts"] ELSE exit
    [] s.cpc = "mounts" -> [s EXCEPT !.cpc = "env"]
    [] s.cpc = "env" -> [s EXCEPT !.cpc = "exec"]
    [] s.cpc = "exec" -> IF ok THEN [s EXCEPT !.cpc = "command"] ELSE exit

HsStep(s) ==
  /\ hs' = s
  /\ UNCHANGED <<rec, dirs, files, cgdirs, cgprocs, cgmem, proc, made, ev, calc, ex, run, race>>

\* container_start is called on a record not running: its user namespace flag,
\* hostname (set or empty) and rootfs, and whether its leaf exists
HsBegin ==
  /\ hs = NoHs
  /\ \E user_ns, hostname, leaf \in BOOLEAN, rootfs \in {"", "/rootfs", "/missing"} :
       HsStep([NoHs EXCEPT !.ppc = "pipe", !.user_ns = user_ns, !.hostname = hostname,
                           !.leaf = leaf, !.rootfs = rootfs])

HsDriver ==
  /\ hs.ppc \notin {"idle", "done", "dead"}
  /\ \E ok \in BOOLEAN : HsStep(ns_create_step(hs, ok))

HsChild ==
  /\ hs.cpc \notin {"none", "command", "exited", "killed"}
  /\ hs.cpc = "read" => sync_read(hs) # "block"
  /\ \E ok \in BOOLEAN : HsStep(container_child_step(hs, ok))

\* the driver dies inside container_start: the kernel closes its descriptors
HsDriverDies ==
  /\ hs.ppc \notin {"idle", "done", "dead"}
  /\ HsStep([hs EXCEPT !.ppc = "dead", !.pw = FALSE])

HsNext == HsBegin \/ HsDriver \/ HsChild \/ HsDriverDies

HandshakeSpec == Init /\ [][HsNext]_vars

\* a driver that lives takes its next statement, and so does a child that is
\* not blocked
HandshakeLive == HandshakeSpec /\ WF_vars(HsDriver) /\ WF_vars(HsChild)

(* ---------------- container_exec, statement by statement --------------- *)
\* The driver runs container_exec; the forked helper enters the namespaces of the
\* init, joins the cgroup and execs the command.  ok is the outcome of the
\* statement's system call where it can fail.

HelperSteps == <<"mnt", "uts", "ipc", "cgroup", "add_pid", "chdir", "exec">>

\* container_exec that probes the pid whatever the record's state
ExecRejects_NoStateCheck(state, pid) == pid <= 0

\* the record is not running
ExecRejects(state, pid) == state # CONTAINER_RUNNING \/ pid <= 0

\* one statement of container_exec in the driver
container_exec_step(s, ok) ==
  CASE s.ppc = "args" ->
         IF s.cmd THEN [s EXCEPT !.ppc = "state"]
         ELSE [s EXCEPT !.ppc = "done", !.ret = MC_ERR_INVALID]
    [] s.ppc = "state" ->
         IF ExecRejects(s.state, s.pid) THEN [s EXCEPT !.ppc = "done", !.ret = MC_ERR_PROCESS]
         ELSE [s EXCEPT !.ppc = "probe"]
    [] s.ppc = "probe" ->
         IF s.live THEN [s EXCEPT !.ppc = "fork", !.probe = "ok"]
         ELSE [s EXCEPT !.ppc = "done", !.probe = "failed", !.ret = MC_ERR_NOT_FOUND]
    [] s.ppc = "fork" ->
         IF ok THEN [s EXCEPT !.ppc = "waitpid", !.hpc = "mnt"]
         ELSE [s EXCEPT !.ppc = "done", !.ret = MC_ERR_PROCESS]
    [] s.ppc = "waitpid" ->
         \* WIFEXITED: by the exit code; any other status: MC_OK
         [s EXCEPT !.ppc = "done", !.hpc = "reaped",
                   !.ret = IF s.signaled THEN MC_OK
                           ELSE IF s.code = 0 THEN MC_OK ELSE MC_ERR_PROCESS]

\* ns_enter(c->pid, type) in the helper: open /proc/<pid>/ns/<name>, then setns
ns_enter(s, name, ok) ==
  [s EXCEPT !.log = Append(@, name),
            !.entered = IF s.live /\ ok THEN @ \cup {name} ELSE @]

\* cgroup_add_pid(c, getpid()) in the helper: the write to cgroup_path/cgroup.procs
\* succeeds when that directory exists
helper_add_pid(s) ==
  [s EXCEPT !.log = Append(@, "add_pid"),
            !.procs = IF s.path = "init" /\ s.leaf THEN "init" ELSE ""]

\* one statement of the helper
exec_helper_step(s, ok) ==
  CASE s.hpc = "mnt" -> [ns_enter(s, "mnt", ok) EXCEPT !.hpc = "uts"]
    [] s.hpc = "uts" -> [ns_enter(s, "uts", ok) EXCEPT !.hpc = "ipc"]
    [] s.hpc = "ipc" -> [ns_enter(s, "ipc", ok) EXCEPT !.hpc = "cgroup"]
    [] s.hpc = "cgroup" -> [ns_enter(s, "cgroup", ok) EXCEPT !.hpc = "add_pid"]
    [] s.hpc = "add_pid" -> [helper_add_pid(s) EXCEPT !.hpc = "chdir"]
    [] s.hpc = "chdir" -> [s EXCEPT !.hpc = "exec", !.log = Append(@, "chdir")]
    [] s.hpc = "exec" ->
         IF ok THEN [s EXCEPT !.hpc = "command", !.log = Append(@, "exec")]
         ELSE [s EXCEPT !.hpc = "exited", !.log = Append(@, "exec"), !.code = 127]
    [] s.hpc = "command" -> [s EXCEPT !.hpc = "exited", !.code = IF ok THEN 0 ELSE 1]

ExStep(s) ==
  /\ ex' = s
  /\ UNCHANGED <<rec, dirs, files, cgdirs, cgprocs, cgmem, proc, made, ev, calc, hs, run, race>>

\* container_exec is called on a record: one a handle holds since create, or one
\* the driver's exec command reloaded with container_list
ExBegin ==
  /\ ex = NoEx
  /\ \E cmd, live, leaf \in BOOLEAN, pid \in {-1, 0, 1}, path \in {"", "init", "list"},
        state \in {CONTAINER_CREATED, CONTAINER_RUNNING, CONTAINER_STOPPED,
                   CONTAINER_PAUSED, CONTAINER_DELETED} :
       /\ live => pid > 0
       /\ path = "" => ~leaf
       /\ ExStep([NoEx EXCEPT !.ppc = "args", !.cmd = cmd, !.state = state, !.pid = pid,
                              !.path = path, !.live = live, !.leaf = leaf])

ExDriver ==
  /\ ex.ppc \notin {"idle", "done"}
  /\ ex.ppc = "waitpid" => ex.hpc = "exited"
  /\ \E ok \in BOOLEAN : ExStep(container_exec_step(ex, ok))

ExHelper ==
  /\ ex.hpc \notin {"none", "exited", "reaped"}
  /\ \E ok \in BOOLEAN : ExStep(exec_helper_step(ex, ok))

\* a signal ends the helper
ExHelperKilled ==
  /\ ex.hpc \notin {"none", "exited", "reaped"}
  /\ ExStep([ex EXCEPT !.hpc = "exited", !.signaled = TRUE])

\* the init ends while container_exec is under way
ExInitExit ==
  /\ ex.ppc \notin {"idle", "done"} /\ ex.live
  /\ ExStep([ex EXCEPT !.live = FALSE])

ExNext == ExBegin \/ ExDriver \/ ExHelper \/ ExInitExit \/ ExHelperKilled

ExecSpec == Init /\ [][ExNext]_vars

(* --------------------------- the run command -------------------------- *)
\* main's run command in driver 1: container_create, container_start, waitpid on
\* the init when the start succeeded, container_delete, container_free and exit.
\* The init and the command line's start, stop and delete act in between.
RunStep(w, op, r) == CommitWorld(w, op, 1) /\ run' = r /\ race' = race

RunCreate ==
  /\ run.pc \in {"idle", "done"} /\ ~rec[1].used
  /\ \E id \in Ids, cfg \in Configs, cgv2 \in BOOLEAN :
       LET w == container_create(World, 1, id, cfg.rootfs, cfg.cmd, cfg.mem, cgv2) IN
       RunStep(w, "create", [NoRun EXCEPT !.pc = IF w.ret = MC_OK THEN "created" ELSE "done",
                                          !.id = id])

RunStart ==
  /\ run.pc = "created"
  /\ \E res \in {MC_OK} \cup NsFailures :
       /\ CanClone(World, 1, res)
       /\ LET w == container_start(World, 1, res) IN
          RunStep(w, "start", [run EXCEPT !.pc = IF w.ret = MC_OK THEN "waitpid" ELSE "delete",
                                          !.started = (w.ret = MC_OK)])

\* waitpid(c->pid, &status, 0) returns when the init has ended
RunWait ==
  /\ run.pc = "waitpid"
  /\ proc[rec[1].pid].st = "zombie" /\ proc[rec[1].pid].parent = 1
  /\ RunStep([World EXCEPT !.proc[rec[1].pid] = NoProc, !.id = rec[1].id], "wait",
             [run EXCEPT !.pc = "delete", !.status = proc[rec[1].pid].code])

RunDelete ==
  /\ run.pc = "delete"
  /\ \E react \in Reactions(DefaultTimeout) :
       RunStep(driver_exit(container_delete(World, 1, react), 1), "delete",
               [run EXCEPT !.pc = "done"])

RunNext ==
  \/ RunCreate
  \/ RunStart
  \/ RunWait
  \/ RunDelete
  \/ \E p \in Pids : ChildRun(p)
  \/ \E p \in Pids : InitExit(p)
  \/ \E id \in Ids : CliStart(id)
  \/ \E id \in Ids : CliStop(id)
  \/ \E id \in Ids : CliDelete(id)

RunSpec == Init /\ [][RunNext]_vars

(* ------------------------- the command-line driver -------------------- *)
\* main after option parsing: cmd is the command word, arg the container
\* argument ("" when missing), list what container_list returns, in order, as
\* (id, name) pairs, ok whether the library call returns MC_OK.  The result is
\* the exit code and the entries the operation was called on, in order.
DriverCommands == {"start", "stop", "delete", "exec", "frobnicate"}
DriverArgs == {"", "a", "b", "c"}
\* the listings: up to two records, ids distinct, a name equal to an id or not
DriverEntries == [id : {"a", "b"}, name : {"a", "b"}]
DriverLists ==
  {<<>>} \cup {<<e>> : e \in DriverEntries}
         \cup {<<p[1], p[2]>> : p \in {q \in DriverEntries \X DriverEntries : q[1].id # q[2].id}}

\* the test of main's loops on one entry
ArgMatches(entry, arg) == entry.id = arg \/ entry.name = arg

\* the indices of the entries the argument matches, in list order
Matching(list, arg) ==
  SelectSeq([i \in 1..Len(list) |-> i], LAMBDA i : ArgMatches(list[i], arg))

main(cmd, arg, list, ok) ==
  LET found == Matching(list, arg) IN
  IF cmd \in {"start", "stop", "delete"}
  THEN IF arg = "" THEN [exit |-> 1, applied |-> <<>>]
       ELSE [exit |-> 0, applied |-> found]
  ELSE IF cmd = "exec"
  THEN IF arg = "" THEN [exit |-> 1, applied |-> <<>>]
       ELSE IF found = <<>> THEN [exit |-> 1, applied |-> <<>>]
       ELSE [exit |-> 0, applied |-> <<found[Len(found)]>>]
  ELSE [exit |-> 1, applied |-> <<>>]

MainCall ==
  \E cmd \in DriverCommands, arg \in DriverArgs, list \in DriverLists, ok \in BOOLEAN :
    Call("main", [cmd |-> cmd, ok |-> ok, arg |-> arg, list |-> list],
         main(cmd, arg, list, ok))

DriverNext == MainCall

DriverSpec == Init /\ [][DriverNext]_vars

(* ------------- two container_create calls on the same id --------------- *)
\* Two drivers call container_create with the same id and their own limits; the
\* statements of the two calls interleave.  Both work on the same state
\* directory and the same leaf.

\* the limits of driver d: every axis set, to values that tell the drivers apart
RaceLimits(d) ==
  [memory_limit_bytes |-> d, cpu_quota_us |-> d, cpu_period_us |-> 0,
   cpu_shares |-> 1024 * d, pids_max |-> d, memory_swap_bytes |-> d]

\* one statement of container_create in driver d
container_create_step(s, d) ==
  LET writes == limit_writes(RaceLimits(d), {}, TRUE)
      k == s.k[d] IN
  CASE s.pc[d] = "calloc" -> [s EXCEPT !.pc[d] = "mkdir"]
    [] s.pc[d] = "mkdir" -> [s EXCEPT !.pc[d] = "cgroup_init", !.dir = TRUE]
    [] s.pc[d] = "cgroup_init" ->
         [s EXCEPT !.pc[d] = IF writes = <<>> THEN "save" ELSE "limits", !.leafdir = TRUE]
    [] s.pc[d] = "limits" ->
         [s EXCEPT !.leaf[writes[k].file] = [value |-> writes[k].value, by |-> d],
                   !.k[d] = k + 1,
                   !.pc[d] = IF k = Len(writes) THEN "save" ELSE "limits"]
    [] s.pc[d] = "save" -> [s EXCEPT !.pc[d] = "done", !.file = d, !.ret[d] = MC_OK]

RaceCommit(s) ==
  /\ race' = s
  /\ UNCHANGED <<rec, dirs, files, cgdirs, cgprocs, cgmem, proc, made, ev, calc, hs, ex, run>>

RaceBegin ==
  /\ race = NoRace
  /\ RaceCommit([NoRace EXCEPT !.pc = <<"calloc", "calloc">>])

RaceStep(d) ==
  /\ race.pc[d] \notin {"idle", "done"}
  /\ RaceCommit(container_create_step(race, d))

RaceNext == RaceBegin \/ \E d \in {1, 2} : RaceStep(d)

RaceSpec == Init /\ [][RaceNext]_vars

(* ----------------------- fs_pivot_root, call by call -------------------- *)
\* The calls of fs_pivot_root in the order of the source: "stat" is dir_exists,
\* "private" and "bind" the two mounts, "mkdir" the mkdir_p of put_old, "chdir",
\* "umount" and "rmdir" the steps on /.old_root, and "rmdir_put_old" the removal
\* of put_old after a failed pivot_root.  isdir: rootfs is a directory; fails:
\* the calls that fail.  pivot_root fails when put_old could not be made.
PivotCalls == <<"stat", "private", "bind", "mkdir", "pivot_root", "chdir", "umount", "rmdir">>
PivotFatal == {"stat", "private", "bind", "pivot_root"}

\* fs_pivot_root that does not return when the bind mount fails
fs_pivot_root_calls_IgnoresBind(isdir, fails) ==
  IF ~isdir THEN [ret |-> MC_ERR_FILESYSTEM, log |-> <<"stat">>]
  ELSE IF "private" \in fails
  THEN [ret |-> MC_ERR_FILESYSTEM, log |-> <<"stat", "private">>]
  ELSE IF "pivot_root" \in fails \/ "mkdir" \in fails
  THEN [ret |-> MC_ERR_FILESYSTEM,
        log |-> <<"stat", "private", "bind", "mkdir", "pivot_root", "rmdir_put_old">>]
  ELSE [ret |-> MC_OK, log |-> PivotCalls]

fs_pivot_root_calls(isdir, fails) ==
  IF ~isdir THEN [ret |-> MC_ERR_FILESYSTEM, log |-> <<"stat">>]
  ELSE IF "private" \in fails
  THEN [ret |-> MC_ERR_FILESYSTEM, log |-> <<"stat", "private">>]
  ELSE IF "bind" \in fails
  THEN [ret |-> MC_ERR_FILESYSTEM, log |-> <<"stat", "private", "bind">>]
  ELSE IF "pivot_root" \in fails \/ "mkdir" \in fails
  THEN [ret |-> MC_ERR_FILESYSTEM,
        log |-> <<"stat", "private", "bind", "mkdir", "pivot_root", "rmdir_put_old">>]
  ELSE [ret |-> MC_OK, log |-> PivotCalls]

PivotRoot ==
  \E isdir \in BOOLEAN, fails \in SUBSET ({PivotCalls[k] : k \in 1..Len(PivotCalls)} \ {"stat"}) :
    Call("pivot", [fails |-> fails, isdir |-> isdir], fs_pivot_root_calls(isdir, fails))

FsNext == PivotRoot

FsSpec == Init /\ [][FsNext]_vars

(* ------------------------------- claims -------------------------------- *)
\* a step of container_start, container_stop, container_delete by driver h
StepOf(op, h) == ev'.op = op /\ ev'.h = h
HasSig(e, sig) == \E k \in 1..Len(e.sigs) : e.sigs[k].sig = sig
\* the leaf cgroup_init creates for a container id
InitLeaf(id) == <<CgroupInitParent, id>>

\* C1: container_start rejects the call (an error is returned, no process is
\* spawned, state, pid and state.txt stay as they were) whenever the record's
\* state is neither created nor stopped.
C1_StartRejectsOtherStates ==
  [][\A h \in Handles :
       (StepOf("start", h) /\ rec[h].used
          /\ rec[h].state \notin {CONTAINER_CREATED, CONTAINER_STOPPED})
       => /\ ev'.ret < 0
          /\ proc' = proc
          /\ rec'[h].state = rec[h].state
          /\ rec'[h].pid = rec[h].pid
          /\ files' = files]_vars

\* C2: container_start on a record whose rootfs is not an existing directory
\* returns the filesystem error, leaves the record not running in memory and in
\* state.txt, and leaves no new child alive.
C2_MissingRootfsFailsStart ==
  [][\A h \in Handles :
       (StepOf("start", h) /\ rec[h].used
          /\ rec[h].state \in {CONTAINER_CREATED, CONTAINER_STOPPED}
          /\ rec[h].rootfs # "" /\ ~dir_exists(rec[h].rootfs))
       => /\ ev'.ret = MC_ERR_FILESYSTEM
          /\ rec'[h].state # CONTAINER_RUNNING
          /\ files'[rec[h].state_dir].state # "running"
          /\ \A p \in Pids : Alive(proc'[p]) => Alive(proc[p])]_vars

\* C3: an init that has reached the exec of the container command has pivoted
\* into its rootfs; no command runs with the host root still visible.
C3_ExecOnlyAfterPivot ==
  \A p \in Pids : proc[p].st = "running" => proc[p].pivoted

\* C4: a start issued by a later driver invocation (the record reloaded by
\* container_list) spawns the init with the rootfs, hostname, command and limits
\* container_create was given, and attaches it to the leaf create made.
C4_ReloadKeepsConfig ==
  [][(StepOf("start", 0) /\ ev'.ret = MC_OK /\ made[ev'.id].set)
     => \E p \in Pids :
          /\ ~Alive(proc[p]) /\ Alive(proc'[p])
          /\ proc'[p].rootfs = made[ev'.id].rootfs
          /\ proc'[p].hostname = made[ev'.id].hostname
          /\ proc'[p].cmd = made[ev'.id].cmd
          /\ proc'[p].mem = made[ev'.id].mem
          /\ made[ev'.id].cgroup_path # NoPath
               => p \in cgprocs'[made[ev'.id].cgroup_path]]_vars

\* C5: a record whose state is running, in memory or in state.txt, has pid > 0
\* and the process at that pid is alive.
C5_RunningIsAlive ==
  /\ \A h \in Handles :
       (rec[h].used /\ rec[h].state = CONTAINER_RUNNING)
       => (rec[h].pid \in Pids /\ Alive(proc[rec[h].pid]))
  /\ \A i \in Ids :
       (files[i].exists /\ files[i].state = "running")
       => (files[i].pid \in Pids /\ Alive(proc[files[i].pid]))

\* C6: while the leaf cgroup_init created for a container id exists, the pid of
\* a running record of that id, in memory or in state.txt, whose init is alive is
\* in the leaf's cgroup.procs.
C6_RunningPidInLeaf ==
  /\ \A h \in Handles :
       (rec[h].used /\ rec[h].state = CONTAINER_RUNNING /\ rec[h].pid \in Pids
          /\ Alive(proc[rec[h].pid]) /\ InitLeaf(rec[h].id) \in cgdirs)
       => rec[h].pid \in cgprocs[InitLeaf(rec[h].id)]
  /\ \A i \in Ids :
       (files[i].exists /\ files[i].state = "running" /\ files[i].pid \in Pids
          /\ Alive(proc[files[i].pid]) /\ InitLeaf(files[i].id) \in cgdirs)
       => files[i].pid \in cgprocs[InitLeaf(files[i].id)]

\* C7: once a lifecycle operation on a record has returned, state.txt exists
\* under the record's state directory if and only if the state is not deleted.
C7_StateFileIffNotDeleted ==
  [][\A h \in Handles :
       (ev'.h = h /\ ev'.op \in {"create", "start", "stop", "delete"} /\ rec'[h].used)
       => ((rec'[h].state # CONTAINER_DELETED) <=> files'[rec'[h].state_dir].exists)]_vars

\* C8: after container_delete has returned, on a created or on a reloaded
\* record, the leaf cgroup_init created for the container id does not exist.
C8_DeleteRemovesLeaf ==
  [][ev'.op = "delete" => InitLeaf(ev'.id) \notin cgdirs']_vars

\* C9: container_stop on a running record returns success; on return the state
\* is stopped in memory and in state.txt and the init is not running.
C9_StopStopsAndPersists ==
  [][/\ \A h \in Handles :
          (StepOf("stop", h) /\ rec[h].used /\ rec[h].state = CONTAINER_RUNNING)
          => /\ ev'.ret = MC_OK
             /\ rec'[h].state = CONTAINER_STOPPED
             /\ files'[rec[h].state_dir].state = "stopped"
             /\ ~Alive(proc'[rec[h].pid])
     /\ (StepOf("stop", 0) /\ files[ev'.id].state = "running")
          => /\ ev'.ret = MC_OK
             /\ files'[ev'.id].state = "stopped"
             /\ ~Alive(proc'[files[ev'.id].pid])]_vars

\* C10: a stop of a running record sends SIGTERM first; it sends SIGKILL only to
\* an init still alive after all timeout * 10 polls; when the init has ended
\* within the timeout no SIGKILL is sent and the polls end with the init.
C10_KillOnlyAfterTimeout ==
  [][(ev'.op = "stop" /\ ev'.sigs # <<>>)
     => /\ ev'.sigs[1].sig = "TERM"
        /\ \A k \in 1..Len(ev'.sigs) :
             ev'.sigs[k].sig = "KILL" => (ev'.sigs[k].alive /\ ev'.polls = ev'.budget)
        /\ (ev'.budget >= 1 /\ ev'.exited <= ev'.budget)
             => (~HasSig(ev', "KILL") /\ ev'.polls <= IF ev'.exited = 0 THEN 1 ELSE ev'.exited)]_vars
\* C11: container_stop on a record that is not running (held, or reloaded by the
\* stop command) returns success and does nothing: no signal, no poll, and the
\* record, state.txt, the directories, the processes and the leaves are unchanged.
C11_StopNotRunningIsNoOp ==
  [][(/\ ev'.op = "stop"
      /\ \/ ev'.h \in Handles /\ rec[ev'.h].state # CONTAINER_RUNNING
         \/ ev'.h = 0 /\ files[ev'.id].state # "running")
     => /\ ev'.ret = MC_OK
        /\ ev'.sigs = <<>>
        /\ ev'.polls = 0
        /\ rec' = rec
        /\ files' = files
        /\ dirs' = dirs
        /\ proc' = proc
        /\ cgdirs' = cgdirs
        /\ cgprocs' = cgprocs]_vars
\* a stop has just returned on a record an earlier stop had stopped
C11_Witness ==
  /\ ev.op = "stop" /\ ev.h \in Handles /\ ev.sigs = <<>>
  /\ ev.from = CONTAINER_STOPPED
  /\ rec[ev.h].state = CONTAINER_STOPPED
\* C12: a container_delete that follows a container_delete of the same record
\* returns success, finds the state directory and the record's leaf already
\* removed, removes nothing, ends no process and leaves the state deleted.
C12_DeleteTwice ==
  [][\A h \in Handles :
       (StepOf("delete", h) /\ ev.op = "delete" /\ ev.h = h /\ rec[h].used)
       => /\ ev'.ret = MC_OK
          /\ ev'.sigs = <<>>
          /\ rec[h].state_dir \notin dirs
          /\ rec[h].cgroup_path \notin cgdirs
          /\ dirs' = dirs
          /\ files' = files
          /\ cgdirs' = cgdirs
          /\ cgprocs' = cgprocs
          /\ proc' = proc
          /\ rec'[h].state = CONTAINER_DELETED]_vars
\* the delete of a deleted record that has had an init and a leaf
C12_Witness ==
  /\ ev.op = "delete" /\ ev.h \in Handles /\ ev.sigs = <<>>
  /\ ev.from = CONTAINER_DELETED
  /\ rec[ev.h].state = CONTAINER_DELETED
  /\ rec[ev.h].pid \in Pids
  /\ rec[ev.h].cgroup_path # NoPath
\* C13: once container_delete has returned, on the record container_create
\* returned (started and stopped or not) or on a reloaded one, container_list
\* returns no record with the deleted record's id.
C13_DeletedNotListed ==
  [][ev'.op = "delete" => ev'.id \notin ListedIds([files |-> files'])]_vars
\* a created record was started, then deleted while running
C13_Witness ==
  /\ ev.op = "delete" /\ ev.h \in Handles /\ ev.from = CONTAINER_RUNNING
  /\ rec[ev.h].id = ev.id
  /\ ev.id \notin ListedIds([files |-> files])
\* C14: a record saved by save_container_state and read back by container_list
\* has the same id, name, state and pid.
C14_SaveReloadRoundTrip ==
  calc.fn = "reload" => calc.out = calc.in
\* C16: a pid enters a leaf's cgroup.procs only after the leaf was created and
\* the limit writes of cgroup_apply_limits were made on it, and no limit file of
\* a leaf is written while an init is attached to it.
C16_LimitsBeforeAttach ==
  [][/\ \A path \in CgPaths :
          cgprocs'[path] \ cgprocs[path] # {}
          => /\ ev'.op = "start" /\ ev'.h \in Handles
             /\ path = rec[ev'.h].cgroup_path
             /\ path \in cgdirs
             /\ rec[ev'.h].mem > 0 => cgmem[path] = rec[ev'.h].mem
     /\ \A h \in Handles :
          (/\ StepOf("create", h) /\ rec'[h].mem > 0
           /\ LeafWritable([cgdirs |-> cgdirs'], rec'[h].cgroup_path))
          => cgprocs[rec'[h].cgroup_path] = {}]_vars
\* C15: in every interleaving of ns_create and the cloned child, the child is at
\* none of its statements after the handshake read (hostname, pivot, mounts,
\* environment, exec) before the driver has written the release byte, and, with
\* enable_user_ns, has written uid_map and gid_map.
C15_WorkAfterRelease ==
  hs.cpc \in ChildWork
  => /\ hs.released
     /\ hs.user_ns => (hs.uid_map /\ hs.gid_map)
\* a child of a user-namespace container has reached its command
C15_Witness ==
  hs.user_ns /\ hs.cpc = "command" /\ hs.uid_map /\ hs.gid_map /\ hs.released

\* C17: in every interleaving of the driver and the cloned child, the child is at
\* none of its statements after the handshake read before its pid is in the
\* leaf's cgroup.procs.
C17_AttachedBeforeWork ==
  (hs.cpc \in ChildWork /\ hs.leaf) => hs.attached
\* C18: cgroup_cleanup (in container_delete) kills every process of the record's
\* leaf before its rmdir, which so finds the leaf empty and removes it; when
\* the leaf is absent already it changes nothing; either way it returns success.
C18_KillBeforeRmdir ==
  [][(ev'.op = "delete" /\ ev'.leaf # NoPath)
     => /\ ev'.cleanup = MC_OK
        /\ ev'.leaf \notin cgdirs'
        /\ ev'.leaf \in cgdirs => \A p \in cgprocs[ev'.leaf] : ~Alive(proc'[p])
        /\ ev'.leaf \notin cgdirs => cgdirs' = cgdirs]_vars
\* a delete whose cleanup found a live process in the leaf
C18_Witness ==
  /\ ev.op = "delete" /\ ev.killed # {}
  /\ ev.leaf \notin cgdirs /\ ev.cleanup = MC_OK
  /\ \A p \in ev.killed : ~Alive(proc[p])
\* the files cgroup_apply_limits is to write for a limits record
Configured(limits, file) ==
  \/ file = "memory.max" /\ limits.memory_limit_bytes > 0
  \/ file = "memory.swap.max" /\ limits.memory_limit_bytes > 0 /\ limits.memory_swap_bytes >= 0
  \/ file = "cpu.max" /\ limits.cpu_quota_us > 0
  \/ file = "cpu.weight" /\ limits.cpu_shares > 0
  \/ file = "pids.max" /\ limits.pids_max > 0

\* C19: whatever fails among cgroup_init and the limit writes, container_create
\* returns MC_OK with the record saved as created, and every configured limit
\* file is written to, those after a failed write included.
C19_CreateSurvivesCgroupFailures ==
  calc.fn = "create"
  => /\ calc.out.ret = MC_OK
     /\ calc.out.saved.exists /\ calc.out.saved.state = "created"
     /\ {calc.out.writes[k].file : k \in 1..Len(calc.out.writes)}
          = {LimitFiles[k] : k \in {j \in 1..Len(LimitFiles) : Configured(calc.in.limits, LimitFiles[j])}}
     /\ \A k \in 1..Len(calc.out.writes) :
          calc.out.writes[k].ok <=> calc.out.writes[k].file \notin calc.in.fails
\* a create in which a limit write failed and a later one was still made
C19_Witness ==
  /\ calc.fn = "create" /\ calc.out.ret = MC_OK
  /\ \E j, k \in 1..Len(calc.out.writes) :
       j < k /\ ~calc.out.writes[j].ok /\ calc.out.writes[k].ok

\* C20: for cpu_shares s in 1..INT_MAX the value written to cpu.weight is
\* floor(s * 100 / 1024) clamped to 1..10000, in exact integer arithmetic.
C20_CpuWeightExact ==
  calc.fn = "weight"
  => LET exact == 25 * (calc.in \div 256) + (25 * (calc.in % 256)) \div 256 IN
     calc.out = IF exact < 1 THEN 1 ELSE IF exact > 10000 THEN 10000 ELSE exact
Prefix(a, b) == Len(a) <= Len(b) /\ \A k \in 1..Len(a) : a[k] = b[k]

\* C22: container_exec forks the helper only when the record's state is running,
\* its pid is > 0 and the signal-0 probe of the pid succeeded; otherwise it
\* returns an error and there is no helper.
C22_ExecOnlyOnLiveRunning ==
  LET accepted == ex.state = CONTAINER_RUNNING /\ ex.pid > 0 /\ ex.probe = "ok" IN
  /\ ex.hpc # "none" => accepted
  /\ (ex.ppc = "done" /\ ~accepted) => (ex.ret < 0 /\ ex.hpc = "none")
\* a helper was forked on a running record with a live init, and waited for
C22_Witness ==
  /\ ex.ppc = "done" /\ ex.hpc = "reaped"
  /\ ex.state = CONTAINER_RUNNING /\ ex.probe = "ok" /\ ex.ret = MC_OK
  /\ ~ex.signaled /\ ex.log = HelperSteps

\* C23: the helper calls setns for mnt, uts, ipc and cgroup in that order, then
\* writes its pid to the cgroup.procs of the container's leaf, then chdirs, then
\* execs; a namespace it could not enter skips nothing, and container_exec
\* returns only after the helper has ended.
C23_HelperOrder ==
  /\ Prefix(ex.log, HelperSteps)
  /\ (ex.hpc \in {"command", "exited", "reaped"} /\ ~ex.signaled) => ex.log = HelperSteps
  /\ ((\E k \in 1..Len(ex.log) : ex.log[k] = "add_pid") /\ ex.leaf) => ex.procs = "init"
  /\ ex.ppc = "done" => ex.hpc \in {"none", "reaped"}
\* C24: the init child exits with 1 when the handshake read, the hostname setup
\* or the pivot to the rootfs fails and with 127 when the exec fails; it exits at
\* the statement that failed, before any later one, and never runs the command.
C24_ChildExitCodes ==
  [][/\ hs'.cpc = "exited" /\ hs.cpc # "exited"
        => /\ hs'.at = hs.cpc
           /\ hs.cpc \in {"read", "hostname", "pivot"} => hs'.code = 1
           /\ hs.cpc = "exec" => hs'.code = 127
           /\ hs.cpc \in {"read", "hostname", "pivot", "exec"}
     /\ hs.cpc = "exited" => hs'.cpc = "exited"]_vars
\* the exec failed after a pivot that succeeded
C24_Witness ==
  hs.cpc = "exited" /\ hs.at = "exec" /\ hs.code = 127 /\ hs.rootfs = "/rootfs"
\* C27: the run command calls create, start, waitpid (when the start succeeded)
\* and delete in that order, and when it has completed, whether the start
\* succeeded or failed and whatever the init's exit status, the container it
\* created has no state directory, no state.txt and no cgroup leaf.
C27_RunLeavesNothing ==
  [][/\ (run'.pc = "done" /\ run.pc # "done")
        => /\ run.pc = "delete" /\ ev'.op = "delete" /\ ev'.id = run.id
           /\ run.id \notin dirs' /\ ~files'[run.id].exists
           /\ InitLeaf(run.id) \notin cgdirs'
     /\ (run'.pc = "delete" /\ run.pc # "delete")
        => \/ run.pc = "waitpid" /\ ev'.op = "wait"
           \/ run.pc = "created" /\ ev'.op = "start" /\ ev'.ret < 0
     /\ (run'.pc = "waitpid" /\ run.pc # "waitpid")
        => run.pc = "created" /\ ev'.op = "start" /\ ev'.ret = MC_OK
     /\ (run'.pc = "created" /\ run.pc # "created") => ev'.op = "create"]_vars
\* a run whose init was started with a leaf and ended with a failure status
C27_Witness ==
  /\ run.pc = "done" /\ run.started /\ run.status # 0
  /\ ev.op = "delete" /\ ev.leaf = InitLeaf(run.id) /\ ev.leaf \notin cgdirs
\* C25: for start, stop, delete and exec, when several records match the argument
\* on id or name, the operation is applied to exactly one record, the first
\* match in container_list order.
C25_FirstMatchOnly ==
  (/\ calc.fn = "main"
   /\ calc.in.cmd \in {"start", "stop", "delete", "exec"}
   /\ calc.in.arg # ""
   /\ Len(Matching(calc.in.list, calc.in.arg)) > 1)
  => calc.out.applied = <<Matching(calc.in.list, calc.in.arg)[1]>>

\* C26: the driver exits with 1 for every user error (unknown command, missing
\* container argument, an argument that resolves to no record for start, stop,
\* delete and exec alike) and with 0 only when the operation succeeded.
C26_ExitCodes ==
  calc.fn = "main"
  => LET user_error ==
           \/ calc.in.cmd \notin {"start", "stop", "delete", "exec"}
           \/ calc.in.arg = ""
           \/ Matching(calc.in.list, calc.in.arg) = <<>> IN
     /\ user_error => calc.out.exit = 1
     /\ calc.out.exit = 0 => (~user_error /\ calc.in.ok)
\* C28: when two drivers run container_create concurrently with the same id, at
\* least one returns success and, whatever the interleaving, the result is
\* consistent: one state.txt, one leaf, and the leaf's limit files all hold the
\* values of the same one of the two configs.
C28_ConcurrentCreateConsistent ==
  (race.pc[1] = "done" /\ race.pc[2] = "done")
  => /\ race.ret[1] = MC_OK \/ race.ret[2] = MC_OK
     /\ race.dir /\ race.file # 0 /\ race.leafdir
     /\ \E d \in {1, 2} : \A f \in DOMAIN race.leaf : race.leaf[f].by = d
\* C29: every change of a record's state by start, stop or delete is one of
\* created->running, stopped->running, running->stopped and
\* (created|running|stopped)->deleted: nothing leaves deleted, nothing goes from
\* created to stopped, nothing enters paused.
C29_StateMachine ==
  [][\A h \in Handles :
       (/\ ev'.h = h /\ ev'.op \in {"start", "stop", "delete"}
        /\ rec[h].used /\ rec'[h].state # rec[h].state)
       => <<rec[h].state, rec'[h].state>> \in
            {<<CONTAINER_CREATED, CONTAINER_RUNNING>>, <<CONTAINER_STOPPED, CONTAINER_RUNNING>>,
             <<CONTAINER_RUNNING, CONTAINER_STOPPED>>, <<CONTAINER_CREATED, CONTAINER_DELETED>>,
             <<CONTAINER_RUNNING, CONTAINER_DELETED>>, <<CONTAINER_STOPPED, CONTAINER_DELETED>>}]_vars

\* C30: container_create with an id for which a record exists fails with the
\* 'exists' error and leaves that record's state.txt and its leaf's limits as
\* they were.
C30_CreateExistingFails ==
  [][(ev'.op = "create" /\ files[ev'.id].exists)
     => /\ ev'.ret = MC_ERR_EXISTS
        /\ files'[ev'.id] = files[ev'.id]
        /\ cgmem' = cgmem]_vars
C32_MapFailureKillsChild ==
  (hs.user_ns /\ hs.ret = MC_ERR_IO /\ hs.cpc # "none")
  => /\ ~hs.released /\ hs.pipe = 0 /\ ~hs.running
     /\ hs.cpc \notin ChildWork
     /\ hs.ppc = "done" => (hs.cpc = "killed" /\ hs.at \in {"close_w", "read"})
\* ns_create returned after gid_map failed and the child, blocked in its read,
\* was killed
C32_Witness ==
  /\ hs.user_ns /\ hs.ppc = "done" /\ hs.ret = MC_ERR_IO
  /\ hs.uid_map /\ ~hs.gid_map /\ hs.cpc = "killed" /\ hs.at = "read"

\* C33: the child never blocks forever in the handshake read: the driver writes
\* the byte, or kills the child, or every write end gets closed (the driver's
\* death included), and the read returns.
C33_ReadReturns == (hs.cpc = "read") ~> (hs.cpc # "read")
\* the driver died before its write and the child's read returned end of file
C33_Witness ==
  hs.ppc = "dead" /\ ~hs.released /\ hs.cpc = "exited" /\ hs.at = "read" /\ hs.code = 1
\* C37: container_exec returns MC_OK only if the helper ended normally with exit
\* status 0; a non-zero exit, the 127 of a failed exec and a death by signal all
\* give an error.
C37_ExecReturnFollowsHelper ==
  (ex.ppc = "done" /\ ex.hpc = "reaped")
  => (ex.ret = MC_OK <=> (~ex.signaled /\ ex.code = 0))
\* C34: the runtime sends no SIGTERM or SIGKILL to a pid it has reaped: in the
\* run command, after the driver's waitpid on the init has returned, the
\* container_delete that follows sends no signal to that pid and does not wait
\* out the stop timeout.
C34_NoSignalAfterReap ==
  [][(run.pc = "delete" /\ run.started /\ run'.pc = "done")
     => /\ \A k \in 1..Len(ev'.sigs) : ev'.sigs[k].pid # rec[1].pid
        /\ ev'.polls = 0]_vars

\* C35: whatever create, start, stop and delete operations the drivers issue (a
\* create that reuses an id and a second start of a record included), at most one
\* init spawned for a container id is alive at a time.
C35_OneInitPerId ==
  \A i \in Ids : Cardinality({p \in Pids : Alive(proc[p]) /\ proc[p].id = i}) <= 1

\* C36: when ns_create fails, container_start returns that error and leaves the
\* record's state and pid and state.txt as they were, and writes nothing to
\* cgroup.procs.
C36_FailedStartChangesNothing ==
  [][\A h \in Handles :
       (ev'.op = "start" /\ ev'.h = h /\ ev'.ret \in NsFailures)
       => /\ rec'[h] = rec[h]
          /\ files' = files
          /\ cgprocs' = cgprocs]_vars
\* a start of a created record with a state.txt failed in ns_create
C36_Witness ==
  /\ ev.op = "start" /\ ev.h \in Handles /\ ev.ret = MC_ERR_NAMESPACE
  /\ rec[ev.h].used /\ rec[ev.h].state = CONTAINER_CREATED /\ files[ev.id].exists
====
